---- MODULE Spec2Model ----
(***************************************************************************)
(* Model of turbine_models/custom_models/sd_inference/unet.py: the         *)
(* UnetModel wrapper, export_unet_model and the command-line entry point.  *)
(* One process is modelled: either one command-line run, or a sequence of  *)
(* export_unet_model calls made by a caller that imported the module.      *)
(* The position inside a run is pc; every call into a collaborating        *)
(* library may raise, which aborts the run (there is no try/except).       *)
(***************************************************************************)
EXTENDS Integers, Sequences, FiniteSets, TLC

\* ---------------------------------------------------------------- bounds
MaxBatch == 2
MaxCalls == 2

\* ------------------------------------------------------------- constants
LATENT_DOWNSCALE == 8
CFG_COPIES == 2
DEFAULT_MAX_LENGTH == 77
DEFAULT_HEIGHT == 512

None == "None"
NoModule == [kind |-> "none"]

\* ---------------------------------------------------------------- inputs
BatchSizes == 1..MaxBatch
\* resolutions below the downscale factor, between two multiples of it, and
\* the command line's default
Dims == {7, 15, DEFAULT_HEIGHT}
Precisions == {"fp16", "fp32"}
MaxLengths == {DEFAULT_MAX_LENGTH}
Stages == {"torch", "linalg", "vmfb"}
CliStages == Stages \cup {None}
ExternalWeights == {None, "safetensors"}
ExternalWeightPaths == {"", "unet.safetensors"}

\* unet_model.unet.config of the loaded network (two published networks)
UnetConfigs ==
  { [in_channels |-> 4, layers_per_block |-> 2, cross_attention_dim |-> 768],
    [in_channels |-> 9, layers_per_block |-> 2, cross_attention_dim |-> 1024] }

\* named parameters of the wrapped torch module
ParamNames == {"unet.conv_in.weight", "unet.conv_out.weight"}

ATTN_DECOMPOSITIONS ==
  << "aten._scaled_dot_product_flash_attention_for_cpu",
     "aten._scaled_dot_product_flash_attention.default" >>

\* shark_turbine.dynamo.passes.DEFAULT_DECOMPOSITIONS as imported
InitialDefaultDecompositions == << "aten.default_decomposition" >>

ApiConfigs ==
  [ caller : {"api"},
    batch_size : BatchSizes, height : Dims, width : Dims,
    precision : Precisions, max_length : MaxLengths,
    compile_to : Stages,
    external_weights : ExternalWeights,
    external_weight_path : ExternalWeightPaths,
    upload_ir : BOOLEAN, decomp_attn : BOOLEAN ]

\* __main__ passes fourteen positional arguments: upload_ir and decomp_attn
\* keep their defaults
CliConfigs ==
  [ caller : {"cli"},
    batch_size : BatchSizes, height : Dims, width : Dims,
    precision : Precisions, max_length : MaxLengths,
    compile_to : CliStages,
    external_weights : ExternalWeights,
    external_weight_path : ExternalWeightPaths,
    upload_ir : {FALSE}, decomp_attn : {TRUE} ]

\* the arguments of no call: the parser's defaults
NoCall ==
  [ caller |-> "cli", batch_size |-> 1, height |-> DEFAULT_HEIGHT,
    width |-> DEFAULT_HEIGHT, precision |-> "fp16",
    max_length |-> DEFAULT_MAX_LENGTH, compile_to |-> None,
    external_weights |-> None, external_weight_path |-> "",
    upload_ir |-> FALSE, decomp_attn |-> TRUE ]

VARIABLES
  pc,                     \* position of the process
  cfg,                    \* arguments of the current (or last) run
  unetConfig,             \* unet_model.unet.config
  DEFAULT_DECOMPOSITIONS, \* the process-wide list object
  decomp_list,            \* the list main() hands to jittable in this call
  mapper,                 \* name mapper dict of this call
  module_str,             \* textual module of this call
  blob_name,              \* value returned by uploadToBlobStorage
  ret,                    \* value returned by export_unet_model
  mlirFile,               \* <safe_name>.mlir: "absent", "empty", "module"
  steps,                  \* steps executed by this run, in order
  failed,                 \* step at which this run raised, or "none"
  printed,                \* "Saved to ..." was printed
  calls,                  \* completed export_unet_model calls in this process
  prev_module             \* module_str of the previous call when it had the same arguments

vars ==
  << pc, cfg, unetConfig, DEFAULT_DECOMPOSITIONS, decomp_list, mapper,
     module_str, blob_name, ret, mlirFile, steps, failed, printed, calls,
     prev_module >>

Range(s) == {s[i] : i \in DOMAIN s}

\* ------------------------------------------------------- pure operators

\* dict.get of the name mapper
DictGet(d, k) == IF k \in DOMAIN d THEN d[k] ELSE None

\* dtype = torch.float16 if precision == "fp16" else torch.float32
Dtype(precision) == IF precision = "fp16" THEN "float16" ELSE "float32"

SampleShapeCeil(batch_size, in_channels, height, width) ==
  << batch_size, in_channels,
     (height + LATENT_DOWNSCALE - 1) \div LATENT_DOWNSCALE,
     (width + LATENT_DOWNSCALE - 1) \div LATENT_DOWNSCALE >>

\* sample = (batch_size, in_channels, height // 8, width // 8)
SampleShape(batch_size, in_channels, height, width) ==
  << batch_size, in_channels,
     height \div LATENT_DOWNSCALE, width \div LATENT_DOWNSCALE >>

\* encoder_hidden_states_sizes
EncoderHiddenStatesSizes(config, max_length) ==
  << config.layers_per_block, max_length, config.cross_attention_dim >>

\* UnetModel.forward: samples = torch.cat([sample] * 2), then one call of
\* self.unet.forward(samples, timestep, encoder_hidden_states)
ForwardUnetInputs(sample, encoder_hidden_states) ==
  [ samples |-> << CFG_COPIES * sample[1], sample[2], sample[3], sample[4] >>,
    encoder_hidden_states |-> encoder_hidden_states ]

\* import_to = "INPUT" if compile_to == "linalg" else "IMPORT"
ImportTo(compile_to) == IF compile_to = "linalg" THEN "INPUT" ELSE "IMPORT"

\* decomp_list = DEFAULT_DECOMPOSITIONS; if decomp_attn: decomp_list.extend(..)
\* The value of the one list object both names denote after these lines.
ExtendedDecompositions(shared, decomp_attn) ==
  IF decomp_attn THEN shared \o ATTN_DECOMPOSITIONS ELSE shared

DecompListCopiedBeforeExtend(shared, decomp_attn) == shared

\* the list that main() reads through the name decomp_list
DecompListOf(shared, decomp_attn) == ExtendedDecompositions(shared, decomp_attn)

\* utils.save_external_weights(mapper, model, external_weights, path):
\* fills the mapper with one key per parameter when weights are requested
SaveExternalWeightsMapper(m, external_weights) ==
  IF external_weights # None
    THEN [n \in (DOMAIN m) \cup ParamNames |-> n]
    ELSE m

\* ... and writes the weights file when requested and a path is given
SaveExternalWeightsWritesFile(external_weights, external_weight_path) ==
  external_weights # None /\ external_weight_path # ""

\* export_parameters(model, external=True, external_scope="", name_mapper=f):
\* every parameter is declared as a reference named by f, or by its own
\* name when f gives None
ExportParametersExternal(m) ==
  [ external |-> TRUE,
    refs |-> { IF DictGet(m, n) = None THEN n ELSE DictGet(m, n) : n \in ParamNames } ]

\* export_parameters(model): every parameter is embedded
ExportParametersEmbedded == [ external |-> FALSE, refs |-> {} ]

ParamsAlwaysEmbedded(external_weights, m) == ExportParametersEmbedded

ParamsAlwaysExternal(external_weights, m) == ExportParametersExternal(m)

\* class body of CompiledUnet: if external_weights: ... else: ...
ParamsDecl(external_weights, m) ==
  IF external_weights # None
    THEN ExportParametersExternal(m)
    ELSE ExportParametersEmbedded

\* jittable(f, decompose_ops=list): the list becomes a decomposition table
JittableDecompositionTable(list) == Range(list)

\* str(CompiledModule.get_mlir_module(inst)) for the class built above
CapturedModule(c, config, m, list) ==
  LET sample == SampleShape(c.batch_size, config.in_channels, c.height, c.width)
      ehs == EncoderHiddenStatesSizes(config, c.max_length)
  IN [ kind |-> "module",
       sample |-> sample,
       timestep |-> << 1 >>,
       encoder_hidden_states |-> ehs,
       guidance_scale |-> << 1 >>,
       dtype |-> Dtype(c.precision),
       import_to |-> ImportTo(c.compile_to),
       params |-> ParamsDecl(c.external_weights, m),
       unet_inputs |-> ForwardUnetInputs(sample, ehs),
       decompositions |-> JittableDecompositionTable(list) ]

\* model_name_upload = hf_model_name.replace("/", "-") + "_unet"
UploadName == "CompVis-stable-diffusion-v1-4_unet/CompVis-stable-diffusion-v1-4_unet.mlir"

\* turbine_tank.uploadToBlobStorage(path, name): the identifier of the blob
UploadToBlobStorage(name) == name

CompileUnlessTorch(compile_to) == compile_to # "torch"

\* if compile_to != "vmfb": return ... else: utils.compile_to_vmfb(...)
NeedsCompile(compile_to) == compile_to = "vmfb"

NoReturn == [kind |-> "none", module |-> NoModule, blob |-> ""]

ReturnBlobWhenUploaded(compile_to, upload_ir, m, b) ==
  IF upload_ir
    THEN [kind |-> "blob", module |-> NoModule, blob |-> b]
    ELSE IF compile_to # "vmfb"
      THEN [kind |-> "module", module |-> m, blob |-> ""]
      ELSE NoReturn

\* the value export_unet_model returns
ReturnValue(compile_to, upload_ir, m, b) ==
  IF compile_to # "vmfb"
    THEN [kind |-> "module", module |-> m, blob |-> ""]
    ELSE IF upload_ir
      THEN [kind |-> "blob", module |-> NoModule, blob |-> b]
      ELSE NoReturn

\* ---------------------------------------------------------------- state

Init ==
  /\ pc = "idle"
  /\ cfg = NoCall
  /\ unetConfig \in UnetConfigs
  /\ DEFAULT_DECOMPOSITIONS = InitialDefaultDecompositions
  /\ decomp_list = << >>
  /\ mapper = << >>
  /\ module_str = NoModule
  /\ blob_name = ""
  /\ ret = NoReturn
  /\ mlirFile = "absent"
  /\ steps = << >>
  /\ failed = "none"
  /\ printed = FALSE
  /\ calls = 0
  /\ prev_module = NoModule

\* locals of a fresh call
FreshCall ==
  /\ decomp_list' = << >>
  /\ mapper' = << >>
  /\ module_str' = NoModule
  /\ blob_name' = ""
  /\ ret' = NoReturn
  /\ steps' = << >>
  /\ failed' = "none"

Raise(step) ==
  /\ failed' = step
  /\ pc' = "aborted"

\* python unet.py ...: args = parser.parse_args()
BeginCli ==
  /\ pc = "idle"
  /\ calls = 0
  /\ \E c \in CliConfigs : cfg' = c
  /\ FreshCall
  /\ prev_module' = NoModule
  /\ pc' = "load"
  /\ UNCHANGED << unetConfig, DEFAULT_DECOMPOSITIONS, mlirFile, printed, calls >>

\* unet_model = UnetModel(args.hf_model_name, args.hf_auth_token)
LoadModel ==
  /\ pc = "load"
  /\ steps' = Append(steps, "load")
  /\ \E ok \in BOOLEAN :
       IF ok THEN pc' = "decomp" /\ failed' = failed
             ELSE Raise("load")
  /\ UNCHANGED << cfg, unetConfig, DEFAULT_DECOMPOSITIONS, decomp_list, mapper,
                  module_str, blob_name, ret, mlirFile, printed, calls,
                  prev_module >>

\* a caller that imported the module calls export_unet_model(model, ...)
BeginApi ==
  /\ pc = "idle"
  /\ calls < MaxCalls
  /\ \E c \in ApiConfigs : cfg' = c
  /\ FreshCall
  /\ prev_module' = NoModule
  /\ pc' = "decomp"
  /\ UNCHANGED << unetConfig, DEFAULT_DECOMPOSITIONS, mlirFile, printed, calls >>

\* mapper = {}; decomp_list = DEFAULT_DECOMPOSITIONS; extend; cast to dtype
BuildDecompList ==
  /\ pc = "decomp"
  /\ DEFAULT_DECOMPOSITIONS' =
       ExtendedDecompositions(DEFAULT_DECOMPOSITIONS, cfg.decomp_attn)
  /\ decomp_list' = DecompListOf(DEFAULT_DECOMPOSITIONS, cfg.decomp_attn)
  /\ mapper' = << >>
  /\ steps' = Append(steps, "decomp_list")
  /\ pc' = "save"
  /\ UNCHANGED << cfg, unetConfig, module_str, blob_name, ret, mlirFile,
                  failed, printed, calls, prev_module >>

\* utils.save_external_weights(mapper, unet_model, external_weights, path)
SaveExternalWeights ==
  /\ pc = "save"
  /\ \E ok \in BOOLEAN :
       IF ok
         THEN /\ mapper' = SaveExternalWeightsMapper(mapper, cfg.external_weights)
              /\ steps' =
                   IF SaveExternalWeightsWritesFile(cfg.external_weights,
                                                    cfg.external_weight_path)
                     THEN steps \o << "save_external_weights", "write_weights_file" >>
                     ELSE Append(steps, "save_external_weights")
              /\ pc' = "capture"
              /\ failed' = failed
         ELSE /\ mapper' = mapper
              /\ steps' = Append(steps, "save_external_weights")
              /\ Raise("save_external_weights")
  /\ UNCHANGED << cfg, unetConfig, DEFAULT_DECOMPOSITIONS, decomp_list,
                  module_str, blob_name, ret, mlirFile, printed, calls,
                  prev_module >>

\* placeholders, class CompiledUnet, inst = CompiledUnet(...), module_str
Capture ==
  /\ pc = "capture"
  /\ steps' = Append(steps, "capture")
  /\ \E ok \in BOOLEAN :
       IF ok
         THEN /\ module_str' = CapturedModule(cfg, unetConfig, mapper, decomp_list)
              /\ pc' = "upload"
              /\ failed' = failed
         ELSE /\ module_str' = module_str
              /\ Raise("capture")
  /\ UNCHANGED << cfg, unetConfig, DEFAULT_DECOMPOSITIONS, decomp_list, mapper,
                  blob_name, ret, mlirFile, printed, calls, prev_module >>

UploadRecoversFromFailure ==
  /\ pc = "upload"
  /\ IF cfg.upload_ir
       THEN /\ mlirFile' = "module"
            /\ steps' = Append(steps, "upload")
            /\ \E ok \in BOOLEAN :
                 /\ blob_name' = IF ok THEN UploadToBlobStorage(UploadName) ELSE ""
                 /\ failed' = IF ok THEN failed ELSE "upload"
                 /\ pc' = "finish"
       ELSE /\ pc' = "finish"
            /\ UNCHANGED << mlirFile, steps, blob_name, failed >>
  /\ UNCHANGED << cfg, unetConfig, DEFAULT_DECOMPOSITIONS, decomp_list, mapper,
                  module_str, ret, printed, calls, prev_module >>

\* if upload_ir: write <safe_name>.mlir, blob_name = uploadToBlobStorage(...)
Upload ==
  /\ pc = "upload"
  /\ IF cfg.upload_ir
       THEN /\ mlirFile' = "module"
            /\ steps' = Append(steps, "upload")
            /\ \E ok \in BOOLEAN :
                 IF ok
                   THEN /\ blob_name' = UploadToBlobStorage(UploadName)
                        /\ pc' = "finish"
                        /\ failed' = failed
                   ELSE /\ blob_name' = blob_name
                        /\ Raise("upload")
       ELSE /\ pc' = "finish"
            /\ UNCHANGED << mlirFile, steps, blob_name, failed >>
  /\ UNCHANGED << cfg, unetConfig, DEFAULT_DECOMPOSITIONS, decomp_list, mapper,
                  module_str, ret, printed, calls, prev_module >>

\* if compile_to != "vmfb": return module_str
\* else: utils.compile_to_vmfb(...); if upload_ir: return blob_name
Finish ==
  /\ pc = "finish"
  /\ IF NeedsCompile(cfg.compile_to)
       THEN /\ steps' = Append(steps, "compile_to_vmfb")
            /\ \E ok \in BOOLEAN :
                 IF ok
                   THEN /\ ret' = ReturnValue(cfg.compile_to, cfg.upload_ir,
                                              module_str, blob_name)
                        /\ pc' = "returned"
                        /\ failed' = failed
                   ELSE /\ ret' = ret
                        /\ Raise("compile_to_vmfb")
       ELSE /\ ret' = ReturnValue(cfg.compile_to, cfg.upload_ir,
                                  module_str, blob_name)
            /\ pc' = "returned"
            /\ UNCHANGED << steps, failed >>
  /\ UNCHANGED << cfg, unetConfig, DEFAULT_DECOMPOSITIONS, decomp_list, mapper,
                  module_str, blob_name, mlirFile, printed, calls, prev_module >>

\* control returns to the importing caller, which drops the call's
\* arguments and result; the locals of the call are gone
ReturnToCaller ==
  /\ pc = "returned"
  /\ cfg.caller = "api"
  /\ calls' = calls + 1
  /\ cfg' = NoCall
  /\ FreshCall
  /\ prev_module' = NoModule
  /\ pc' = "idle"
  /\ UNCHANGED << unetConfig, DEFAULT_DECOMPOSITIONS, mlirFile, printed >>

\* the importing caller keeps the result and calls export_unet_model again
\* with the same arguments
CallAgain ==
  /\ pc = "returned"
  /\ cfg.caller = "api"
  /\ calls + 1 < MaxCalls
  /\ calls' = calls + 1
  /\ prev_module' = module_str
  /\ FreshCall
  /\ pc' = "decomp"
  /\ UNCHANGED << cfg, unetConfig, DEFAULT_DECOMPOSITIONS, mlirFile, printed >>

\* with open(f"{safe_name}.mlir", "w+") as f: f.write(mod_str)
\* open truncates the file; write(None) raises TypeError
MainWrite ==
  /\ pc = "returned"
  /\ cfg.caller = "cli"
  /\ steps' = Append(steps, "write_mlir")
  /\ IF ret.kind = "none"
       THEN /\ mlirFile' = "empty"
            /\ Raise("write_mlir")
       ELSE /\ mlirFile' = "module"
            /\ pc' = "print"
            /\ failed' = failed
  /\ calls' = calls + 1
  /\ UNCHANGED << cfg, unetConfig, DEFAULT_DECOMPOSITIONS, decomp_list, mapper,
                  module_str, blob_name, ret, printed, prev_module >>

\* print("Saved to", safe_name + ".mlir")
MainPrint ==
  /\ pc = "print"
  /\ printed' = TRUE
  /\ steps' = Append(steps, "print")
  /\ pc' = "exit"
  /\ UNCHANGED << cfg, unetConfig, DEFAULT_DECOMPOSITIONS, decomp_list, mapper,
                  module_str, blob_name, ret, mlirFile, failed, calls,
                  prev_module >>

Next ==
  \/ BeginCli
  \/ LoadModel
  \/ BeginApi
  \/ BuildDecompList
  \/ SaveExternalWeights
  \/ Capture
  \/ Upload
  \/ Finish
  \/ ReturnToCaller
  \/ CallAgain
  \/ MainWrite
  \/ MainPrint

Spec == Init /\ [][Next]_vars

\* --------------------------------------------------------------- claims

Did(step) == step \in Range(steps)

Captured == module_str.kind = "module"

\* export_unet_model ran to its return statement in this run
ExportEnded ==
  \/ pc \in {"returned", "print", "exit"}
  \/ pc = "aborted" /\ failed = "write_mlir"

\* failures raised by a collaborating library
LibrarySteps ==
  {"load", "save_external_weights", "capture", "upload", "compile_to_vmfb"}

\* C1: utils.compile_to_vmfb is never invoked when compile_to is "torch" or
\* "linalg", and has been invoked in every run whose export reached its end
\* with compile_to = "vmfb", whatever the other options are.
C1_CompileIffVmfb ==
  /\ cfg.compile_to \in {"torch", "linalg"} => ~Did("compile_to_vmfb")
  /\ ExportEnded /\ cfg.compile_to = "vmfb" => Did("compile_to_vmfb")

C1_Witness ==
  /\ pc = "returned"
  /\ cfg.compile_to = "vmfb"
  /\ cfg.upload_ir
  /\ cfg.external_weights # None
  /\ ~cfg.decomp_attn
  /\ Did("compile_to_vmfb")

\* C2 (as stated): the upload is attempted only when upload_ir is enabled,
\* and the value export_unet_model returns is a non-empty blob identifier
\* exactly when upload_ir is enabled, for every compile_to stage.
C2_Original ==
  /\ Did("upload") => cfg.upload_ir
  /\ ExportEnded => ((ret.kind = "blob" /\ ret.blob # "") <=> cfg.upload_ir)

\* C2 (amended): the upload is attempted only when upload_ir is enabled; the
\* returned value is a non-empty blob identifier exactly when upload_ir is
\* enabled and compile_to is "vmfb"; for every other stage the returned
\* value is the module text, whether or not upload_ir is enabled.
C2_BlobReturnedOnlyForVmfb ==
  /\ Did("upload") => cfg.upload_ir
  /\ ExportEnded =>
       /\ (ret.kind = "blob" /\ ret.blob # "")
            <=> (cfg.upload_ir /\ cfg.compile_to = "vmfb")
       /\ cfg.compile_to # "vmfb" =>
            ret.kind = "module" /\ ret.module = module_str

C2_Witness ==
  /\ pc = "returned"
  /\ cfg.upload_ir
  /\ cfg.compile_to = "vmfb"
  /\ Did("upload")
  /\ ret.kind = "blob"
  /\ ret.blob = UploadName

\* C3: a command-line run in which no collaborating library fails ends
\* having written the module to <safe-name>.mlir and printed the output
\* path, for every --compile_to stage; with vmfb the compile step has run.
C3_CliRunWritesAndPrints ==
  (cfg.caller = "cli" /\ pc \in {"exit", "aborted"} /\ failed \notin LibrarySteps)
    => /\ mlirFile = "module"
       /\ printed
       /\ cfg.compile_to = "vmfb" => Did("compile_to_vmfb")

\* C4: the sample placeholder of the exported entry point is
\* (batch_size, in_channels, floor(height / 8), floor(width / 8)); with
\* height = width = 512 and batch_size = 1 it is (1, in_channels, 64, 64).
C4_SampleShape ==
  Captured =>
    LET s == module_str.sample
    IN /\ Len(s) = 4
       /\ s[1] = cfg.batch_size
       /\ s[2] = unetConfig.in_channels
       /\ 8 * s[3] <= cfg.height /\ cfg.height < 8 * s[3] + 8
       /\ 8 * s[4] <= cfg.width /\ cfg.width < 8 * s[4] + 8
       /\ (cfg.height = 512 /\ cfg.width = 512 /\ cfg.batch_size = 1)
            => s = << 1, unetConfig.in_channels, 64, 64 >>

C4_Witness ==
  /\ Captured
  /\ cfg.batch_size = 2
  /\ cfg.height = 15
  /\ cfg.width = 7
  /\ module_str.sample = << 2, unetConfig.in_channels, 1, 0 >>

C6_NoWeightsFileWhenNotRequested ==
  cfg.external_weights = None =>
    /\ ~Did("write_weights_file")
    /\ Captured =>
         /\ ~module_str.params.external
         /\ module_str.params.refs = {}

C6_Witness ==
  /\ pc = "returned"
  /\ cfg.external_weights = None
  /\ cfg.external_weight_path = "unet.safetensors"
  /\ cfg.compile_to = "vmfb"
  /\ Did("save_external_weights")
  /\ ~module_str.params.external

\* C7: a step that fails aborts the run there: the failing step is the last
\* step executed, the success message is not printed, and after an upload
\* failure the backend compile step has not been invoked.
C7_FailFast ==
  failed # "none" =>
    /\ pc = "aborted"
    /\ steps # << >> /\ steps[Len(steps)] = failed
    /\ ~printed
    /\ failed = "upload" => ~Did("compile_to_vmfb")

C7_Witness ==
  /\ failed = "upload"
  /\ pc = "aborted"
  /\ cfg.compile_to = "vmfb"
  /\ Did("capture")

C9_PolicyFreshPerCall ==
  /\ DEFAULT_DECOMPOSITIONS = InitialDefaultDecompositions
  /\ Did("decomp_list") =>
       decomp_list = IF cfg.decomp_attn
                       THEN InitialDefaultDecompositions \o ATTN_DECOMPOSITIONS
                       ELSE InitialDefaultDecompositions

\* C10: the leading dimension of the encoder-hidden-state placeholder equals
\* the leading dimension of the duplicated sample batch handed to the
\* network, 2 * batch_size.
C10_BatchDimsAgree ==
  Captured =>
    /\ module_str.unet_inputs.encoder_hidden_states[1]
         = module_str.unet_inputs.samples[1]
    /\ module_str.encoder_hidden_states[1] = 2 * cfg.batch_size

====
